---- MODULE Spec2Model ----
(***************************************************************************)
(* Delta-based execution timeline of the Sigma16 visualiser                *)
(* (hook useSigma16Timeline): one full initial snapshot, one delta per     *)
(* executed instruction, reconstruction by replay, and the step navigator. *)
(* The execution engine and the assembler live in src/logic of the         *)
(* repository; they are modelled here from their documented contract.      *)
(***************************************************************************)
EXTENDS Integers, Sequences, FiniteSets, TLC

VARIABLES timeline, currentStep, isExecuting, error, engine, last,
          currentState, previousState, currentDelta, recalled,
          rendered, origin, heap

vars == <<timeline, currentStep, isExecuting, error, engine, last,
          currentState, previousState, currentDelta, recalled,
          rendered, origin, heap>>

(* ---------------------------------------------------------------- bounds *)

\* Number of memory words of the modelled machine (MEMORY_WORDS, reduced).
MemWords == 12

\* Largest step cap (options.maxSteps) a caller passes.
MaxStepsCap == 6

(* ------------------------------------------------------------- constants *)

NumRegs == 16

WordSize == 65536

\* JavaScript null (timeline, error, states, deltas).
Null == [isNull |-> TRUE]

\* JavaScript undefined (a missing field, an array index out of range).
Undefined == [isUndefined |-> TRUE]

\* parseHexWord's null result.
NoWord == -1

RegIdx == 0 .. (NumRegs - 1)

MemIdx == 0 .. (MemWords - 1)

\* An element store into a Uint16Array keeps the low 16 bits.
Word16(x) == x % WordSize

\* Memory addresses wrap around the address space.
Addr(a) == a % MemWords

RECURSIVE Pow2(_)
Pow2(n) == IF n = 0 THEN 1 ELSE 2 * Pow2(n - 1)

Range(s) == {s[i] : i \in DOMAIN s}

(* ------------------------------------------- engine (src/logic/*.mjs) *)

bit_ccG == 1

bit_ccE == 2

bit_ccV == 6

bit_ccC == 7

\* arch.extractBoolLE(word, i): bit i of word, bit 0 the least significant.
extractBoolLE(w, i) == ((w \div Pow2(i)) % 2) = 1

SCB_reset == "reset"

SCB_running == "running"

SCB_halted == "halted"

\* regfile[i].get(): R0 always reads 0.
regGet(es, i) == IF i = 0 THEN 0 ELSE es.reg[i]

\* regfile[i].put(x): logs the store; R0 keeps 0.
regPut(es, i, x) ==
    [es EXCEPT !.reg = [es.reg EXCEPT ![i] = IF i = 0 THEN 0 ELSE Word16(x)],
               !.regStored = Append(es.regStored, i)]

\* Register fetch performed by an instruction: logs the fetch.
regFetch(es, i) == [es EXCEPT !.regFetched = Append(es.regFetched, i)]

\* ab.readMem16 / ab.writeMem16
readMem16(es, a) == es.mem[Addr(a)]

writeMem16(es, a, x) == [es EXCEPT !.mem = [es.mem EXCEPT ![Addr(a)] = Word16(x)]]

\* memStore(es, a, x): a store performed by an instruction is logged.
memStore(es, a, x) ==
    [writeMem16(es, a, x) EXCEPT !.memStoreLog = Append(es.memStoreLog, Addr(a))]

\* createEmulatorState: fresh state vector, initializeMachineState, procReset.
createEmulatorState ==
    [pc |-> 0, ir |-> 0,
     reg |-> [i \in RegIdx |-> 0],
     mem |-> [a \in MemIdx |-> 0],
     statusreg |-> 0, mask |-> 0, req |-> 0, vect |-> 0,
     status |-> SCB_reset,
     instrCount |-> 0,
     curInstrAddr |-> 0, nextInstrAddr |-> 0,
     regFetched |-> <<>>, regStored |-> <<>>, memStoreLog |-> <<>>]

\* Condition code produced by an addition.
additionCC(sum) ==
    LET primary == Word16(sum)
    IN  (IF sum >= WordSize THEN Pow2(bit_ccC) + Pow2(bit_ccV) ELSE 0)
      + (IF primary > 0 THEN Pow2(bit_ccG) ELSE 0)
      + (IF primary = 0 THEN Pow2(bit_ccE) ELSE 0)

\* executeInstruction(es): fetch, decode and execute exactly one
\* instruction in place; the access logs describe this instruction only.
executeInstruction(es0) ==
    LET es1  == [es0 EXCEPT !.regFetched = <<>>, !.regStored = <<>>,
                            !.memStoreLog = <<>>,
                            !.status = SCB_running,
                            !.curInstrAddr = es0.pc,
                            !.ir = readMem16(es0, es0.pc),
                            !.pc = Addr(es0.pc + 1),
                            !.instrCount = es0.instrCount + 1]
        ir   == es1.ir
        op   == ir \div 4096
        d    == (ir \div 256) % 16
        a    == (ir \div 16) % 16
        b    == ir % 16
        disp == readMem16(es1, es1.pc)
        rx   == [es1 EXCEPT !.pc = Addr(es1.pc + 1)]
        ea   == Word16(disp + regGet(es1, a))
        done(es) == [es EXCEPT !.nextInstrAddr = es.pc]
    IN  CASE op = 0 ->
               LET sum == regGet(es1, a) + regGet(es1, b)
                   f   == regFetch(regFetch(es1, a), b)
                   p   == regPut(f, d, sum)
               IN  done(IF d < 15 THEN regPut(p, 15, additionCC(sum)) ELSE p)
          [] op = 12 ->
               LET f == regFetch(es1, d)
               IN  done(IF regGet(es1, d) = 0
                        THEN [f EXCEPT !.status = SCB_halted]
                        ELSE f)
          [] op = 15 /\ b = 0 -> done(regPut(regFetch(rx, a), d, ea))
          [] op = 15 /\ b = 1 ->
               done(regPut(regFetch(rx, a), d, readMem16(rx, ea)))
          [] op = 15 /\ b = 2 ->
               done(memStore(regFetch(regFetch(rx, a), d), ea, regGet(rx, d)))
          [] op = 15 /\ b = 3 ->
               done([regFetch(rx, a) EXCEPT !.pc = Addr(ea)])
          [] OTHER -> done(es1)

(* ------------------------------------------------ hook: pure helpers *)

\* loadObjectCode's scan of the values of one data line.
RECURSIVE loadValues(_, _, _, _, _, _)
loadValues(es, values, i, address, minAddress, maxAddress) ==
    IF i > Len(values)
    THEN [es |-> es, address |-> address,
          minAddress |-> minAddress, maxAddress |-> maxAddress]
    ELSE IF values[i] = NoWord
    THEN loadValues(es, values, i + 1, address, minAddress, maxAddress)
    ELSE loadValues(writeMem16(es, address, values[i]), values, i + 1,
                    address + 1,
                    IF minAddress = NoWord \/ address < minAddress
                    THEN address ELSE minAddress,
                    IF maxAddress = NoWord \/ address > maxAddress
                    THEN address ELSE maxAddress)

RECURSIVE loadLines(_, _, _, _, _, _)
loadLines(es, objectLines, i, address, minAddress, maxAddress) ==
    IF i > Len(objectLines)
    THEN [es |-> es,
          info |-> [startAddress |-> IF minAddress = NoWord THEN 0 ELSE minAddress,
                    minAddress |-> minAddress,
                    maxAddress |-> maxAddress]]
    ELSE LET line == objectLines[i]
         IN  IF line.op = "org"
             THEN LET nextAddr == IF Len(line.rest) > 0 THEN line.rest[1] ELSE NoWord
                  IN  IF nextAddr # NoWord
                      THEN loadLines(es, objectLines, i + 1, nextAddr,
                                     IF minAddress = NoWord \/ nextAddr < minAddress
                                     THEN nextAddr ELSE minAddress,
                                     IF maxAddress = NoWord \/ nextAddr > maxAddress
                                     THEN nextAddr ELSE maxAddress)
                      ELSE loadLines(es, objectLines, i + 1, address,
                                     minAddress, maxAddress)
             ELSE IF line.op = "data"
             THEN LET r == loadValues(es, line.rest, 1, address,
                                      minAddress, maxAddress)
                  IN  loadLines(r.es, objectLines, i + 1, r.address,
                                r.minAddress, r.maxAddress)
             ELSE loadLines(es, objectLines, i + 1, address,
                            minAddress, maxAddress)

\* loadObjectCode(es, objectLines): the loaded engine state and programInfo.
loadObjectCode(es, objectLines) == loadLines(es, objectLines, 1, 0, NoWord, NoWord)

captureRegisters(es) == [i \in RegIdx |-> Word16(regGet(es, i))]

captureMemory(es) == [a \in MemIdx |-> es.mem[a]]

captureFullState(es) ==
    LET ccWord == regGet(es, 15)
    IN  [pc |-> es.pc, ir |-> es.ir,
         reg |-> captureRegisters(es),
         mem |-> captureMemory(es),
         ccC |-> extractBoolLE(ccWord, bit_ccC),
         ccV |-> extractBoolLE(ccWord, bit_ccV),
         ccG |-> extractBoolLE(ccWord, bit_ccG),
         ccE |-> extractBoolLE(ccWord, bit_ccE),
         statusreg |-> es.statusreg, mask |-> es.mask,
         req |-> es.req, vect |-> es.vect,
         halted |-> (es.status = SCB_halted),
         instrCount |-> es.instrCount]

\* cloneState allocating the memory by length instead of copying it.
cloneState_emptyMemory(state) ==
    [state EXCEPT !.reg = [i \in DOMAIN state.reg |-> state.reg[i]],
                  !.mem = [a \in DOMAIN state.mem |-> 0]]

cloneState(state) ==
    [state EXCEPT !.reg = [i \in DOMAIN state.reg |-> state.reg[i]],
                  !.mem = [a \in DOMAIN state.mem |-> state.mem[a]]]

\* computeDelta without the loop over memStoreLog.
computeDelta_noStoreLog(es) ==
    LET ccWord == regGet(es, 15)
        fetched == {r \in Range(es.regFetched) : r >= 0 /\ r < 16}
        stored  == {r \in Range(es.regStored) : r >= 0 /\ r < 16}
    IN  [pc |-> es.pc, ir |-> es.ir,
         curInstrAddr |-> es.curInstrAddr,
         nextInstrAddr |-> es.nextInstrAddr,
         ccC |-> extractBoolLE(ccWord, bit_ccC),
         ccV |-> extractBoolLE(ccWord, bit_ccV),
         ccG |-> extractBoolLE(ccWord, bit_ccG),
         ccE |-> extractBoolLE(ccWord, bit_ccE),
         controlRegs |-> [statusreg |-> es.statusreg, mask |-> es.mask,
                          req |-> es.req, vect |-> es.vect],
         halted |-> (es.status = SCB_halted),
         instrCount |-> es.instrCount,
         changedRegisters |-> [r \in stored |-> regGet(es, r)],
         changedMemory |-> [a \in {} |-> 0],
         touchedRegisters |-> fetched \cup stored]

\* computeDelta entering the fetched registers into changedRegisters too.
computeDelta_fetchedAsChanged(es) ==
    LET ccWord == regGet(es, 15)
        fetched == {r \in Range(es.regFetched) : r >= 0 /\ r < 16}
        stored  == {r \in Range(es.regStored) : r >= 0 /\ r < 16}
    IN  [pc |-> es.pc, ir |-> es.ir,
         curInstrAddr |-> es.curInstrAddr,
         nextInstrAddr |-> es.nextInstrAddr,
         ccC |-> extractBoolLE(ccWord, bit_ccC),
         ccV |-> extractBoolLE(ccWord, bit_ccV),
         ccG |-> extractBoolLE(ccWord, bit_ccG),
         ccE |-> extractBoolLE(ccWord, bit_ccE),
         controlRegs |-> [statusreg |-> es.statusreg, mask |-> es.mask,
                          req |-> es.req, vect |-> es.vect],
         halted |-> (es.status = SCB_halted),
         instrCount |-> es.instrCount,
         changedRegisters |-> [r \in fetched \cup stored |-> regGet(es, r)],
         changedMemory |-> [a \in Range(es.memStoreLog) |-> readMem16(es, a)],
         touchedRegisters |-> fetched \cup stored]

computeDelta(es) ==
    LET ccWord == regGet(es, 15)
        fetched == {r \in Range(es.regFetched) : r >= 0 /\ r < 16}
        stored  == {r \in Range(es.regStored) : r >= 0 /\ r < 16}
    IN  [pc |-> es.pc, ir |-> es.ir,
         curInstrAddr |-> es.curInstrAddr,
         nextInstrAddr |-> es.nextInstrAddr,
         ccC |-> extractBoolLE(ccWord, bit_ccC),
         ccV |-> extractBoolLE(ccWord, bit_ccV),
         ccG |-> extractBoolLE(ccWord, bit_ccG),
         ccE |-> extractBoolLE(ccWord, bit_ccE),
         controlRegs |-> [statusreg |-> es.statusreg, mask |-> es.mask,
                          req |-> es.req, vect |-> es.vect],
         halted |-> (es.status = SCB_halted),
         instrCount |-> es.instrCount,
         changedRegisters |-> [r \in stored |-> regGet(es, r)],
         changedMemory |-> [a \in Range(es.memStoreLog) |-> readMem16(es, a)],
         touchedRegisters |-> fetched \cup stored]

\* applyDelta filling a fresh register array instead of a copy.
applyDelta_freshRegisters(state, delta) ==
    [state EXCEPT
        !.pc = delta.pc,
        !.ir = delta.ir,
        !.ccC = delta.ccC,
        !.ccV = delta.ccV,
        !.ccG = delta.ccG,
        !.ccE = delta.ccE,
        !.halted = delta.halted,
        !.instrCount = delta.instrCount,
        !.reg = [i \in DOMAIN state.reg |->
                    IF i \in DOMAIN delta.changedRegisters
                    THEN Word16(delta.changedRegisters[i])
                    ELSE 0],
        !.mem = [a \in DOMAIN state.mem |->
                    IF a \in DOMAIN delta.changedMemory
                    THEN Word16(delta.changedMemory[a])
                    ELSE state.mem[a]],
        !.statusreg = delta.controlRegs.statusreg,
        !.mask = delta.controlRegs.mask,
        !.req = delta.controlRegs.req,
        !.vect = delta.controlRegs.vect]

\* applyDelta leaving the four condition flags as they were.
applyDelta_keepsFlags(state, delta) ==
    [state EXCEPT
        !.pc = delta.pc,
        !.ir = delta.ir,
        !.halted = delta.halted,
        !.instrCount = delta.instrCount,
        !.reg = [i \in DOMAIN state.reg |->
                    IF i \in DOMAIN delta.changedRegisters
                    THEN Word16(delta.changedRegisters[i])
                    ELSE state.reg[i]],
        !.mem = [a \in DOMAIN state.mem |->
                    IF a \in DOMAIN delta.changedMemory
                    THEN Word16(delta.changedMemory[a])
                    ELSE state.mem[a]],
        !.statusreg = delta.controlRegs.statusreg,
        !.mask = delta.controlRegs.mask,
        !.req = delta.controlRegs.req,
        !.vect = delta.controlRegs.vect]

\* applyDelta without the changedMemory loop.
applyDelta_noMemory(state, delta) ==
    [state EXCEPT
        !.pc = delta.pc,
        !.ir = delta.ir,
        !.ccC = delta.ccC,
        !.ccV = delta.ccV,
        !.ccG = delta.ccG,
        !.ccE = delta.ccE,
        !.halted = delta.halted,
        !.instrCount = delta.instrCount,
        !.reg = [i \in DOMAIN state.reg |->
                    IF i \in DOMAIN delta.changedRegisters
                    THEN Word16(delta.changedRegisters[i])
                    ELSE state.reg[i]],
        !.statusreg = delta.controlRegs.statusreg,
        !.mask = delta.controlRegs.mask,
        !.req = delta.controlRegs.req,
        !.vect = delta.controlRegs.vect]

applyDelta(state, delta) ==
    [state EXCEPT
        !.pc = delta.pc,
        !.ir = delta.ir,
        !.ccC = delta.ccC,
        !.ccV = delta.ccV,
        !.ccG = delta.ccG,
        !.ccE = delta.ccE,
        !.halted = delta.halted,
        !.instrCount = delta.instrCount,
        !.reg = [i \in DOMAIN state.reg |->
                    IF i \in DOMAIN delta.changedRegisters
                    THEN Word16(delta.changedRegisters[i])
                    ELSE state.reg[i]],
        !.mem = [a \in DOMAIN state.mem |->
                    IF a \in DOMAIN delta.changedMemory
                    THEN Word16(delta.changedMemory[a])
                    ELSE state.mem[a]],
        !.statusreg = delta.controlRegs.statusreg,
        !.mask = delta.controlRegs.mask,
        !.req = delta.controlRegs.req,
        !.vect = delta.controlRegs.vect]

\* The replay loop of getStateAtStep: apply deltas[i .. step-1] (0-based).
RECURSIVE replay(_, _, _, _)
replay(state, deltas, i, step) ==
    IF i < step
    THEN replay(applyDelta(state, deltas[i + 1]), deltas, i + 1, step)
    ELSE state

\* getStateAtStep replaying onto the memoised current state instead of a
\* clone of the initial state.
getStateAtStep_fromCurrent(tl, step) ==
    IF tl = Null \/ step < 0 \/ step > tl.totalSteps
    THEN Null
    ELSE replay(cloneState(IF currentState = Null THEN tl.initialState
                           ELSE currentState),
                tl.deltas, 0, step)

\* getStateAtStep whose upper range check is step >= totalSteps.
getStateAtStep_offByOne(tl, step) ==
    IF tl = Null \/ step < 0 \/ step >= tl.totalSteps
    THEN Null
    ELSE replay(cloneState(tl.initialState), tl.deltas, 0, step)

getStateAtStep(tl, step) ==
    IF tl = Null \/ step < 0 \/ step > tl.totalSteps
    THEN Null
    ELSE replay(cloneState(tl.initialState), tl.deltas, 0, step)

(* ------------------------------------------- storage of typed arrays *)

\* The hook's states hold their registers and memory in Uint16Arrays.  A
\* heap maps each array's reference to its contents; a stored state has
\* references in its reg and mem fields.
Deref(h, state) ==
    [state EXCEPT !.reg = h.cells[state.reg], !.mem = h.cells[state.mem]]

\* new Uint16Array(contents): a fresh array.
newUint16Array(h, contents) ==
    [heap |-> [h EXCEPT !.cells = (h.next :> contents) @@ h.cells,
                        !.next = h.next + 1],
     ref |-> h.next]

\* cloneState as a plain spread, without the two new Uint16Arrays.
cloneStateAlloc_shared(h, state) == [heap |-> h, state |-> state]

\* cloneState on stored states.
cloneStateAlloc(h, state) ==
    LET v == cloneState(Deref(h, state))
        a == newUint16Array(h, v.reg)
        b == newUint16Array(a.heap, v.mem)
    IN  [heap |-> b.heap, state |-> [state EXCEPT !.reg = a.ref, !.mem = b.ref]]

\* applyDelta on stored states.
applyDeltaAlloc(h, state, delta) ==
    LET v == applyDelta(Deref(h, state), delta)
        a == newUint16Array(h, v.reg)
        b == newUint16Array(a.heap, v.mem)
    IN  [heap |-> b.heap, state |-> [v EXCEPT !.reg = a.ref, !.mem = b.ref]]

RECURSIVE replayAlloc(_, _, _, _)
replayAlloc(hs, deltas, i, step) ==
    IF i < step
    THEN replayAlloc(applyDeltaAlloc(hs.heap, hs.state, deltas[i + 1]),
                     deltas, i + 1, step)
    ELSE hs

\* getStateAtStep on stored states.
getStateAtStepAlloc(h, tl, step) ==
    IF tl = Null \/ step < 0 \/ step > tl.totalSteps
    THEN [heap |-> h, state |-> Null]
    ELSE replayAlloc(cloneStateAlloc(h, [tl.initialState EXCEPT
                                            !.reg = h.initial.reg,
                                            !.mem = h.initial.mem]),
                     tl.deltas, 0, step)

\* The storage of a timeline: the two arrays of its initial state.
NewHeap(tl) ==
    [timeline |-> tl,
     cells |-> (0 :> tl.initialState.reg) @@ (1 :> tl.initialState.mem),
     next |-> 2,
     initial |-> [reg |-> 0, mem |-> 1],
     held |-> <<>>]

\* Arrays nothing refers to any more are dropped.
collect(h) ==
    LET live == {h.initial.reg, h.initial.mem}
                  \cup {h.held[j].reg : j \in DOMAIN h.held}
                  \cup {h.held[j].mem : j \in DOMAIN h.held}
    IN  [h EXCEPT !.cells = [r \in live |-> h.cells[r]]]

\* React's useMemo: the cached value is kept until a dependency changes.
useMemo(cached, depsChanged, fresh) == IF depsChanged THEN fresh ELSE cached

\* The factories of the memoised currentState, previousState, currentDelta.
currentStateOf(tl, step) == getStateAtStep(tl, step)

previousStateOf(tl, step) ==
    IF step <= 0 THEN Null ELSE getStateAtStep(tl, step - 1)

\* currentDelta read at index currentStep instead of currentStep - 1.
currentDeltaOf_offByOne(tl, step) ==
    IF tl = Null \/ step = 0
    THEN Null
    ELSE IF step + 1 \in DOMAIN tl.deltas THEN tl.deltas[step + 1] ELSE Undefined

currentDeltaOf(tl, step) ==
    IF tl = Null \/ step = 0
    THEN Null
    ELSE IF step \in DOMAIN tl.deltas THEN tl.deltas[step] ELSE Undefined

\* totalSteps as the hook exposes it: timeline?.totalSteps || 0
totalSteps == IF timeline = Null THEN 0 ELSE timeline.totalSteps

(* ------------------------------------------------------- program inputs *)

\* Instruction words of the engine's instruction formats.
RRR(op, d, a, b) == op * 4096 + d * 256 + a * 16 + b

RX(d, a, b) == RRR(15, d, a, b)

DataLine(values) == [op |-> "data", rest |-> values]

\* load R1,x[R0]; load R2,y[R0]; add R3,R1,R2; store R3,sum[R0];
\* trap R0,R0,R0; x data 42; y data 17; sum data 0
SrcAdd ==
    [name |-> "add", nAsmErrors |-> 0,
     objectCode |-> << [op |-> "module", rest |-> <<>>],
                       [op |-> "org", rest |-> <<0>>],
                       DataLine(<<RX(1, 0, 1), 8, RX(2, 0, 1), 9>>),
                       DataLine(<<RRR(0, 3, 1, 2), RX(3, 0, 2), 10>>),
                       [op |-> "", rest |-> <<>>],
                       DataLine(<<RRR(12, 0, 0, 0), 42, 17, 0>>) >>]

\* loop jump loop[R0]
SrcLoop ==
    [name |-> "loop", nAsmErrors |-> 0,
     objectCode |-> << DataLine(<<RX(0, 0, 3), 0>>) >>]

\* lea R1,7[R0]; lea R1,7[R0]; store R1,x[R0]; trap R0,R0,R0; x data 7
SrcSame ==
    [name |-> "same", nAsmErrors |-> 0,
     objectCode |-> << DataLine(<<RX(1, 0, 0), 7, RX(1, 0, 0), 7>>),
                       DataLine(<<RX(1, 0, 2), 7, RRR(12, 0, 0, 0), 7>>) >>]

\* A program placed at address 2 that halts at once; the hole in the
\* data line is a field parseHexWord rejects.
SrcOrg ==
    [name |-> "org", nAsmErrors |-> 0,
     objectCode |-> << [op |-> "org", rest |-> <<NoWord>>],
                       [op |-> "org", rest |-> <<2>>],
                       DataLine(<<NoWord, RRR(12, 0, 0, 0)>>) >>]

\* A source the assembler rejects.
SrcBad ==
    [name |-> "bad", nAsmErrors |-> 2,
     objectCode |-> << DataLine(<<RRR(12, 0, 0, 0)>>) >>]

Sources == {SrcAdd, SrcLoop, SrcSame, SrcOrg, SrcBad}

\* assembler('program', sourceCode)
assembler(sourceCode) ==
    [nAsmErrors |-> sourceCode.nAsmErrors, objectCode |-> sourceCode.objectCode]

\* Step caps the callers pass.
StepCaps == {0, 1, 3, MaxStepsCap}

\* The call of executeInstruction that throws (0: none does).
Faults == {0, 1, 3}

(* ---------------------------------------------------- executeProgram *)

\* The run loop without the test of the engine's status.
RECURSIVE runLoop_ignoresHalt(_, _, _, _, _, _)
runLoop_ignoresHalt(es, deltas, steps, maxSteps, faultAt, trace) ==
    IF steps < maxSteps
    THEN IF faultAt = steps + 1
         THEN [threw |-> TRUE, es |-> es, deltas |-> deltas,
               steps |-> steps, trace |-> trace]
         ELSE LET es2 == executeInstruction(es)
              IN  runLoop_ignoresHalt(es2, Append(deltas, computeDelta(es2)),
                                      steps + 1, maxSteps, faultAt,
                                      Append(trace, captureFullState(es2)))
    ELSE [threw |-> FALSE, es |-> es, deltas |-> deltas,
          steps |-> steps, trace |-> trace]

\* The run loop inserting each delta at the front of the log.
RECURSIVE runLoop_prepends(_, _, _, _, _, _)
runLoop_prepends(es, deltas, steps, maxSteps, faultAt, trace) ==
    IF es.status # SCB_halted /\ steps < maxSteps
    THEN IF faultAt = steps + 1
         THEN [threw |-> TRUE, es |-> es, deltas |-> deltas,
               steps |-> steps, trace |-> trace]
         ELSE LET es2 == executeInstruction(es)
              IN  runLoop_prepends(es2, <<computeDelta(es2)>> \o deltas,
                                   steps + 1, maxSteps, faultAt,
                                   Append(trace, captureFullState(es2)))
    ELSE [threw |-> FALSE, es |-> es, deltas |-> deltas,
          steps |-> steps, trace |-> trace]

\* The run loop with the cap test steps <= maxSteps.
RECURSIVE runLoop_capOffByOne(_, _, _, _, _, _)
runLoop_capOffByOne(es, deltas, steps, maxSteps, faultAt, trace) ==
    IF es.status # SCB_halted /\ steps <= maxSteps
    THEN IF faultAt = steps + 1
         THEN [threw |-> TRUE, es |-> es, deltas |-> deltas,
               steps |-> steps, trace |-> trace]
         ELSE LET es2 == executeInstruction(es)
              IN  runLoop_capOffByOne(es2, Append(deltas, computeDelta(es2)),
                                      steps + 1, maxSteps, faultAt,
                                      Append(trace, captureFullState(es2)))
    ELSE [threw |-> FALSE, es |-> es, deltas |-> deltas,
          steps |-> steps, trace |-> trace]

\* The run loop of executeProgram; trace records the engine's state
\* after each executed instruction.
RECURSIVE runLoop(_, _, _, _, _, _)
runLoop(es, deltas, steps, maxSteps, faultAt, trace) ==
    IF es.status # SCB_halted /\ steps < maxSteps
    THEN IF faultAt = steps + 1
         THEN [threw |-> TRUE, es |-> es, deltas |-> deltas,
               steps |-> steps, trace |-> trace]
         ELSE LET es2 == executeInstruction(es)
              IN  runLoop(es2, Append(deltas, computeDelta(es2)), steps + 1,
                          maxSteps, faultAt, Append(trace, captureFullState(es2)))
    ELSE [threw |-> FALSE, es |-> es, deltas |-> deltas,
          steps |-> steps, trace |-> trace]

\* What the engine did during the latest run (observation only): the
\* assembler's error count, the number of executed instructions, whether
\* executeInstruction threw, the status at the end, and the engine's
\* state after 0, 1, 2, ... instructions.
EngineLog(nAsmErrors, maxSteps, run, programInfo, loaded) ==
    [nAsmErrors |-> nAsmErrors, threw |-> run.threw,
     executed |-> run.steps,
     halted |-> (run.es.status = SCB_halted),
     maxSteps |-> maxSteps,
     startAddress |-> programInfo.startAddress,
     loaded |-> loaded,
     trace |-> run.trace]

NoRun(nAsmErrors, maxSteps) ==
    [nAsmErrors |-> nAsmErrors, threw |-> FALSE, executed |-> 0,
     halted |-> FALSE, maxSteps |-> maxSteps, startAddress |-> 0,
     loaded |-> <<>>, trace |-> <<>>]

\* What a render of the hook fixes: the timeline and currentStep its
\* callbacks close over, and whether the memoised values were recomputed.
Rendered(tl, step, recomputed) ==
    [timeline |-> tl, currentStep |-> step, recomputed |-> recomputed]

\* The render with currentStep as the only dependency of the memoised
\* values.
render_stepOnly(timelineChanged) ==
    LET depsChanged == currentStep' # currentStep
    IN  /\ currentState' = useMemo(currentState, depsChanged,
                                   currentStateOf(timeline', currentStep'))
        /\ previousState' = useMemo(previousState, depsChanged,
                                    previousStateOf(timeline', currentStep'))
        /\ currentDelta' = useMemo(currentDelta, depsChanged,
                                   currentDeltaOf(timeline', currentStep'))
        /\ rendered' = Rendered(timeline', currentStep', depsChanged)

\* The render that follows a call: each memoised value is recomputed when
\* the timeline object or currentStep differs from the previous render.
render(timelineChanged) ==
    LET depsChanged == timelineChanged \/ currentStep' # currentStep
    IN  /\ currentState' = useMemo(currentState, depsChanged,
                                   currentStateOf(timeline', currentStep'))
        /\ previousState' = useMemo(previousState, depsChanged,
                                    previousStateOf(timeline', currentStep'))
        /\ currentDelta' = useMemo(currentDelta, depsChanged,
                                   currentDeltaOf(timeline', currentStep'))
        /\ rendered' = Rendered(timeline', currentStep', depsChanged)

History(op, arg, result) ==
    [op |-> op, arg |-> arg, result |-> result,
     pre |-> [timeline |-> timeline, currentStep |-> currentStep,
              error |-> error]]

\* runProgram capturing the initial snapshot before pc is set to the
\* start address.
runProgram_capturesBeforePc(sourceCode, maxSteps, faultAt) ==
    LET asmResult == assembler(sourceCode)
    IN  IF asmResult.nAsmErrors > 0
        THEN [thrown |-> [message |-> <<"Assembly failed with ",
                                        asmResult.nAsmErrors, " error(s).">>],
              timeline |-> Null,
              engine |-> NoRun(asmResult.nAsmErrors, maxSteps)]
        ELSE LET ld  == loadObjectCode(createEmulatorState, asmResult.objectCode)
                 programInfo == ld.info
                 initialState == captureFullState(ld.es)
                 es  == [ld.es EXCEPT !.pc = Addr(programInfo.startAddress),
                                      !.curInstrAddr = programInfo.startAddress,
                                      !.nextInstrAddr = programInfo.startAddress]
                 run == runLoop(es, <<>>, 0, maxSteps, faultAt, <<initialState>>)
             IN  [thrown |-> IF run.threw THEN [message |-> <<"engine fault">>]
                             ELSE Null,
                  timeline |-> [initialState |-> initialState,
                                deltas |-> run.deltas,
                                sourceCode |-> sourceCode.name,
                                totalSteps |-> Len(run.deltas),
                                completed |-> (run.es.status = SCB_halted),
                                programInfo |-> programInfo],
                  engine |-> EngineLog(asmResult.nAsmErrors, maxSteps, run,
                                       programInfo, ld.es.mem)]

\* runProgram without the test of the assembler's error count.
runProgram_ignoresAsmErrors(sourceCode, maxSteps, faultAt) ==
    LET asmResult == assembler(sourceCode)
        ld  == loadObjectCode(createEmulatorState, asmResult.objectCode)
        programInfo == ld.info
        es  == [ld.es EXCEPT !.pc = Addr(programInfo.startAddress),
                             !.curInstrAddr = programInfo.startAddress,
                             !.nextInstrAddr = programInfo.startAddress]
        initialState == captureFullState(es)
        run == runLoop(es, <<>>, 0, maxSteps, faultAt, <<initialState>>)
    IN  [thrown |-> IF run.threw THEN [message |-> <<"engine fault">>]
                    ELSE Null,
         timeline |-> [initialState |-> initialState,
                       deltas |-> run.deltas,
                       sourceCode |-> sourceCode.name,
                       totalSteps |-> Len(run.deltas),
                       completed |-> (run.es.status = SCB_halted),
                       programInfo |-> programInfo],
         engine |-> EngineLog(asmResult.nAsmErrors, maxSteps, run,
                              programInfo, ld.es.mem)]

\* The body of executeProgram's try block: the outcome of assembling,
\* loading and running sourceCode.
runProgram(sourceCode, maxSteps, faultAt) ==
    LET asmResult == assembler(sourceCode)
    IN  IF asmResult.nAsmErrors > 0
        THEN [thrown |-> [message |-> <<"Assembly failed with ",
                                        asmResult.nAsmErrors, " error(s).">>],
              timeline |-> Null,
              engine |-> NoRun(asmResult.nAsmErrors, maxSteps)]
        ELSE LET ld  == loadObjectCode(createEmulatorState, asmResult.objectCode)
                 programInfo == ld.info
                 es  == [ld.es EXCEPT !.pc = Addr(programInfo.startAddress),
                                      !.curInstrAddr = programInfo.startAddress,
                                      !.nextInstrAddr = programInfo.startAddress]
                 initialState == captureFullState(es)
                 run == runLoop(es, <<>>, 0, maxSteps, faultAt, <<initialState>>)
             IN  [thrown |-> IF run.threw THEN [message |-> <<"engine fault">>]
                             ELSE Null,
                  timeline |-> [initialState |-> initialState,
                                deltas |-> run.deltas,
                                sourceCode |-> sourceCode.name,
                                totalSteps |-> Len(run.deltas),
                                completed |-> (run.es.status = SCB_halted),
                                programInfo |-> programInfo],
                  engine |-> EngineLog(asmResult.nAsmErrors, maxSteps, run,
                                       programInfo, ld.es.mem)]

\* Every run the callers can start, computed once.
Runs == [s \in Sources, m \in StepCaps, f \in Faults |-> runProgram(s, m, f)]

\* executeProgram without its finally block.
executeProgram_noFinally(sourceCode, maxSteps, faultAt) ==
    LET r == Runs[sourceCode, maxSteps, faultAt]
    IN  /\ isExecuting' = TRUE
        /\ last' = History("executeProgram", maxSteps, Null)
        /\ engine' = r.engine
        /\ IF r.thrown = Null
           THEN /\ error' = Null
                /\ timeline' = r.timeline
                /\ currentStep' = 0
           ELSE /\ error' = r.thrown
                /\ timeline' = Null
                /\ UNCHANGED currentStep
        /\ render(r.thrown = Null \/ timeline # Null)
        /\ UNCHANGED <<recalled, origin, heap>>

\* executeProgram without setError(null) at its start.
executeProgram_keepsError(sourceCode, maxSteps, faultAt) ==
    LET r == Runs[sourceCode, maxSteps, faultAt]
    IN  /\ isExecuting' = FALSE
        /\ last' = History("executeProgram", maxSteps, Null)
        /\ engine' = r.engine
        /\ IF r.thrown = Null
           THEN /\ UNCHANGED error
                /\ timeline' = r.timeline
                /\ currentStep' = 0
           ELSE /\ error' = r.thrown
                /\ timeline' = Null
                /\ UNCHANGED currentStep
        /\ render(r.thrown = Null \/ timeline # Null)
        /\ UNCHANGED <<recalled, origin, heap>>

\* executeProgram whose catch block does not clear the timeline.
executeProgram_keepsTimeline(sourceCode, maxSteps, faultAt) ==
    LET r == Runs[sourceCode, maxSteps, faultAt]
    IN  /\ isExecuting' = FALSE
        /\ last' = History("executeProgram", maxSteps, Null)
        /\ engine' = r.engine
        /\ IF r.thrown = Null
           THEN /\ error' = Null
                /\ timeline' = r.timeline
                /\ currentStep' = 0
           ELSE /\ error' = r.thrown
                /\ UNCHANGED <<timeline, currentStep>>
        /\ render(r.thrown = Null)
        /\ UNCHANGED <<recalled, origin, heap>>

executeProgram(sourceCode, maxSteps, faultAt) ==
    LET r == Runs[sourceCode, maxSteps, faultAt]
    IN  /\ isExecuting' = FALSE
        /\ last' = History("executeProgram", maxSteps, Null)
        /\ engine' = r.engine
        /\ IF r.thrown = Null
           THEN /\ error' = Null
                /\ timeline' = r.timeline
                /\ currentStep' = 0
           ELSE /\ error' = r.thrown
                /\ timeline' = Null
                /\ UNCHANGED currentStep
        /\ render(r.thrown = Null \/ timeline # Null)
        /\ UNCHANGED <<recalled, origin, heap>>

(* -------------------------------------------------------- navigation *)

\* goToStep without the test step >= 0.
goToStep_noLowerBound(step) ==
    /\ IF timeline # Null /\ step <= timeline.totalSteps
       THEN currentStep' = step
       ELSE UNCHANGED currentStep
    /\ last' = History("goToStep", step, Null)
    /\ UNCHANGED <<timeline, isExecuting, error, engine>>
    /\ render(FALSE)
    /\ UNCHANGED <<recalled, origin, heap>>

goToStep(step) ==
    /\ IF timeline # Null /\ step >= 0 /\ step <= timeline.totalSteps
       THEN currentStep' = step
       ELSE UNCHANGED currentStep
    /\ last' = History("goToStep", step, Null)
    /\ UNCHANGED <<timeline, isExecuting, error, engine>>
    /\ render(FALSE)
    /\ UNCHANGED <<recalled, origin, heap>>

\* nextStep with the test currentStep <= totalSteps.
nextStep_offByOne ==
    /\ IF timeline # Null /\ currentStep <= timeline.totalSteps
       THEN currentStep' = currentStep + 1
       ELSE UNCHANGED currentStep
    /\ last' = History("nextStep", 0, Null)
    /\ UNCHANGED <<timeline, isExecuting, error, engine>>
    /\ render(FALSE)
    /\ UNCHANGED <<recalled, origin, heap>>

nextStep ==
    /\ IF timeline # Null /\ currentStep < timeline.totalSteps
       THEN currentStep' = currentStep + 1
       ELSE UNCHANGED currentStep
    /\ last' = History("nextStep", 0, Null)
    /\ UNCHANGED <<timeline, isExecuting, error, engine>>
    /\ render(FALSE)
    /\ UNCHANGED <<recalled, origin, heap>>

prevStep ==
    /\ IF currentStep > 0
       THEN currentStep' = currentStep - 1
       ELSE UNCHANGED currentStep
    /\ last' = History("prevStep", 0, Null)
    /\ UNCHANGED <<timeline, isExecuting, error, engine>>
    /\ render(FALSE)
    /\ UNCHANGED <<recalled, origin, heap>>

\* reset that also drops the timeline.
reset_clearsTimeline ==
    /\ currentStep' = 0
    /\ timeline' = Null
    /\ last' = History("reset", 0, Null)
    /\ UNCHANGED <<isExecuting, error, engine>>
    /\ render(timeline # Null)
    /\ UNCHANGED <<recalled, origin, heap>>

reset ==
    /\ currentStep' = 0
    /\ last' = History("reset", 0, Null)
    /\ UNCHANGED <<timeline, isExecuting, error, engine>>
    /\ render(FALSE)
    /\ UNCHANGED <<recalled, origin, heap>>

\* goToEnd jumping to the index of the last delta.
goToEnd_lastIndex ==
    /\ IF timeline # Null
       THEN currentStep' = timeline.totalSteps - 1
       ELSE UNCHANGED currentStep
    /\ last' = History("goToEnd", 0, Null)
    /\ UNCHANGED <<timeline, isExecuting, error, engine>>
    /\ render(FALSE)
    /\ UNCHANGED <<recalled, origin, heap>>

goToEnd ==
    /\ IF timeline # Null
       THEN currentStep' = timeline.totalSteps
       ELSE UNCHANGED currentStep
    /\ last' = History("goToEnd", 0, Null)
    /\ UNCHANGED <<timeline, isExecuting, error, engine>>
    /\ render(FALSE)
    /\ UNCHANGED <<recalled, origin, heap>>

clearTimeline ==
    /\ timeline' = Null
    /\ currentStep' = 0
    /\ error' = Null
    /\ last' = History("clearTimeline", 0, Null)
    /\ UNCHANGED <<isExecuting, engine>>
    /\ render(timeline # Null)
    /\ UNCHANGED <<recalled, origin, heap>>

\* canStepForward / canStepBackward of the hook's return value (a null
\* from "timeline && ..." counts as false).
canStepForwardOf(tl, step) == tl # Null /\ step < tl.totalSteps

canStepBackwardOf(step) == step > 0

canStepForward == canStepForwardOf(timeline, currentStep)

canStepBackward == canStepBackwardOf(currentStep)

\* The register grid of Sigma16Visualizer:
\* currentDelta?.fetchedRegisters?.includes(index) and
\* currentDelta?.storedRegisters?.includes(index).
isInput(delta, index) ==
    /\ delta # Null
    /\ delta # Undefined
    /\ "fetchedRegisters" \in DOMAIN delta
    /\ index \in delta["fetchedRegisters"]

isOutput(delta, index) ==
    /\ delta # Null
    /\ delta # Undefined
    /\ "storedRegisters" \in DOMAIN delta
    /\ index \in delta["storedRegisters"]

\* A caller reconstructs the state at a step of its choice.
callGetStateAtStep(step) ==
    /\ last' = History("getStateAtStep", step, getStateAtStep(timeline, step))
    /\ UNCHANGED <<timeline, currentStep, isExecuting, error, engine>>
    /\ render(FALSE)
    /\ UNCHANGED <<recalled, origin, heap>>

\* A caller reconstructs a state and keeps the first state it obtained
\* from the live timeline while the navigator stood on step 0.
recallGetStateAtStep(step) ==
    LET result == getStateAtStep(timeline, step)
    IN  /\ last' = History("getStateAtStep", step, result)
        /\ recalled' = IF /\ currentStep = 0
                          /\ recalled = Null \/ recalled.timeline # timeline
                       THEN [timeline |-> timeline, step |-> step,
                             result |-> result]
                       ELSE recalled
        /\ UNCHANGED <<timeline, currentStep, isExecuting, error, engine>>
        /\ render(FALSE)
        /\ UNCHANGED <<origin, heap>>

\* Calls of nextStep or prevStep a caller makes in a row before the hook
\* re-renders.
MaxBatch == 2

\* The memoised values and the callbacks are those of the latest state.
UpToDate == rendered.timeline = timeline /\ rendered.currentStep = currentStep

\* nextStep called on the callback of the latest render while an earlier
\* update of the same batch is still pending: the test reads the
\* currentStep the callback closed over, the updater the pending value.
batchedNextStep ==
    /\ currentStep - rendered.currentStep < MaxBatch
    /\ rendered.currentStep - currentStep < MaxBatch
    /\ IF rendered.timeline # Null
          /\ rendered.currentStep < rendered.timeline.totalSteps
       THEN currentStep' = currentStep + 1
       ELSE UNCHANGED currentStep
    /\ last' = History("nextStep", 0, Null)
    /\ UNCHANGED <<timeline, isExecuting, error, engine,
                   currentState, previousState, currentDelta, rendered,
                   recalled, origin, heap>>

\* prevStep called in the same way.
batchedPrevStep ==
    /\ currentStep - rendered.currentStep < MaxBatch
    /\ rendered.currentStep - currentStep < MaxBatch
    /\ IF rendered.currentStep > 0
       THEN currentStep' = currentStep - 1
       ELSE UNCHANGED currentStep
    /\ last' = History("prevStep", 0, Null)
    /\ UNCHANGED <<timeline, isExecuting, error, engine,
                   currentState, previousState, currentDelta, rendered,
                   recalled, origin, heap>>

\* The render that ends a batch of calls.
rerender ==
    LET depsChanged == currentStep # rendered.currentStep
    IN  /\ ~UpToDate
        /\ currentState' = useMemo(currentState, depsChanged,
                                   currentStateOf(timeline, currentStep))
        /\ previousState' = useMemo(previousState, depsChanged,
                                    previousStateOf(timeline, currentStep))
        /\ currentDelta' = useMemo(currentDelta, depsChanged,
                                   currentDeltaOf(timeline, currentStep))
        /\ rendered' = Rendered(timeline, currentStep, depsChanged)
        /\ UNCHANGED <<timeline, currentStep, isExecuting, error, engine,
                       last, recalled, origin, heap>>

\* What the hook showed where a round trip of nextStep and prevStep
\* started; leg counts the calls of the trip made so far.
Origin(kind) ==
    [kind |-> kind, leg |-> 1,
     currentStep |-> currentStep, currentState |-> currentState,
     previousState |-> previousState, currentDelta |-> currentDelta]

\* A trip of the given kind has made its first call.
Returning(kind) == origin # Null /\ origin.leg = 1 /\ origin.kind = kind

\* A trip has made its first call and not yet its second.
MidTrip == origin # Null /\ origin.leg = 1

\* nextStep as the first call of a trip that starts where currentStep <
\* totalSteps, or as the second call of a trip that started with prevStep.
roundTripNextStep ==
    /\ ~Returning("nextPrev")
    /\ origin' = IF Returning("prevNext") THEN [origin EXCEPT !.leg = 2]
                 ELSE IF currentStep < totalSteps THEN Origin("nextPrev")
                 ELSE Null
    /\ IF timeline # Null /\ currentStep < timeline.totalSteps
       THEN currentStep' = currentStep + 1
       ELSE UNCHANGED currentStep
    /\ last' = History("nextStep", 0, Null)
    /\ UNCHANGED <<timeline, isExecuting, error, engine>>
    /\ render(FALSE)
    /\ UNCHANGED <<recalled, heap>>

\* prevStep as the first call of a trip that starts where currentStep > 0,
\* or as the second call of a trip that started with nextStep.
roundTripPrevStep ==
    /\ ~Returning("prevNext")
    /\ origin' = IF Returning("nextPrev") THEN [origin EXCEPT !.leg = 2]
                 ELSE IF currentStep > 0 THEN Origin("prevNext")
                 ELSE Null
    /\ IF currentStep > 0
       THEN currentStep' = currentStep - 1
       ELSE UNCHANGED currentStep
    /\ last' = History("prevStep", 0, Null)
    /\ UNCHANGED <<timeline, isExecuting, error, engine>>
    /\ render(FALSE)
    /\ UNCHANGED <<recalled, heap>>

\* States a caller keeps at a time.
MaxHeld == 2

\* The word and the index a caller writes.
WrittenWord == 999

WrittenIndex == 1

\* Steps whose states a caller keeps: the clone alone, one delta applied,
\* and a step out of range.
HeldSteps == {0, 1, MaxStepsCap + 1}

\* A caller reconstructs a state and keeps the object it was handed.
heapGetStateAtStep(step) ==
    LET h0 == IF heap = Null \/ heap.timeline # timeline
              THEN NewHeap(timeline) ELSE heap
        r  == getStateAtStepAlloc(h0, timeline, step)
    IN  /\ timeline # Null
        /\ Len(h0.held) < MaxHeld
        /\ heap' = collect(IF r.state = Null THEN r.heap
                           ELSE [r.heap EXCEPT !.held = Append(@, r.state)])
        /\ last' = History("getStateAtStep", step,
                           IF r.state = Null THEN Null
                           ELSE Deref(r.heap, r.state))
        /\ UNCHANGED <<timeline, currentStep, isExecuting, error, engine>>
        /\ render(FALSE)
        /\ UNCHANGED <<recalled, origin>>

\* A caller writes into the registers or the memory of a state it keeps.
callerWrites(j, field) ==
    /\ heap # Null
    /\ heap.timeline = timeline
    /\ j \in DOMAIN heap.held
    /\ heap' = [heap EXCEPT !.cells[heap.held[j][field]][WrittenIndex] =
                                Word16(WrittenWord)]
    /\ last' = History("write", j, Null)
    /\ UNCHANGED <<timeline, currentStep, isExecuting, error, engine,
                   currentState, previousState, currentDelta, rendered,
                   recalled, origin>>

\* Steps a caller asks for, in and out of range.
StepArgs == -1 .. (MaxStepsCap + 1)

Init ==
    /\ timeline = Null
    /\ currentStep = 0
    /\ isExecuting = FALSE
    /\ error = Null
    /\ engine = NoRun(0, 0)
    /\ last = [op |-> "init", arg |-> 0, result |-> Null,
               pre |-> [timeline |-> Null, currentStep |-> 0, error |-> Null]]
    /\ currentState = currentStateOf(Null, 0)
    /\ previousState = previousStateOf(Null, 0)
    /\ currentDelta = currentDeltaOf(Null, 0)
    /\ recalled = Null
    /\ rendered = Rendered(Null, 0, TRUE)
    /\ origin = Null
    /\ heap = Null

Next ==
    \/ \E s \in Sources, m \in StepCaps, f \in Faults : executeProgram(s, m, f)
    \/ \E k \in StepArgs : goToStep(k)
    \/ nextStep
    \/ prevStep
    \/ reset
    \/ goToEnd
    \/ clearTimeline
    \/ \E k \in StepArgs : callGetStateAtStep(k)

Spec == Init /\ [][Next]_vars

\* Complete runs of two halting programs, navigation, and reconstructions
\* whose first result per timeline is kept for comparison.
NextRecall ==
    \/ \E s \in {SrcAdd, SrcSame} : executeProgram(s, MaxStepsCap, 0)
    \/ \E k \in StepArgs : goToStep(k)
    \/ nextStep
    \/ prevStep
    \/ reset
    \/ goToEnd
    \/ clearTimeline
    \/ \E k \in StepArgs : recallGetStateAtStep(k)

SpecRecall == Init /\ [][NextRecall]_vars

\* Complete runs of two halting programs, reconstructions whose results
\* the caller keeps, and writes into the kept results.
NextHeap ==
    \/ \E s \in {SrcAdd, SrcSame} : executeProgram(s, MaxStepsCap, 0)
    \/ clearTimeline
    \/ \E k \in HeldSteps : heapGetStateAtStep(k)
    \/ \E j \in 1 .. MaxHeld, field \in {"reg", "mem"} : callerWrites(j, field)

SpecHeap == Init /\ [][NextHeap]_vars

\* Runs that succeed, batches of nextStep and prevStep calls between two
\* renders, and the other operations called on an up-to-date hook.
NextBatch ==
    \/ UpToDate /\ \E s \in {SrcAdd, SrcOrg}, m \in {3, MaxStepsCap} :
                       executeProgram(s, m, 0)
    \/ batchedNextStep
    \/ batchedPrevStep
    \/ rerender
    \/ UpToDate /\ \E k \in StepArgs : goToStep(k)
    \/ UpToDate /\ reset
    \/ UpToDate /\ goToEnd
    \/ UpToDate /\ clearTimeline

SpecBatch == Init /\ [][NextBatch]_vars

\* Runs of the documented program and of a source that does not
\* assemble, jumps of the navigator, and round trips of nextStep and
\* prevStep that no other call interrupts.
NextRoundTrip ==
    \/ ~MidTrip /\ \E s \in {SrcAdd, SrcBad} : executeProgram(s, MaxStepsCap, 0)
    \/ ~MidTrip /\ \E k \in StepArgs : goToStep(k)
    \/ ~MidTrip /\ clearTimeline
    \/ roundTripNextStep
    \/ roundTripPrevStep

SpecRoundTrip == Init /\ [][NextRoundTrip]_vars

(* ---------------------------------------------------------- properties *)

\* The engine's state after k instructions of the latest run.
EngineStateAfter(k) == engine.trace[k + 1]

InRange(tl, step) == tl # Null /\ step >= 0 /\ step <= tl.totalSteps

\* C1 (replay correctness): for every step k in 0..totalSteps of a live
\* timeline, getStateAtStep(k) equals, field by field, the state the
\* engine had after executing exactly k instructions; at k = totalSteps
\* that is the final state of the run.
C1_ReplayCorrect ==
    timeline # Null =>
        /\ Len(engine.trace) = timeline.totalSteps + 1
        /\ \A k \in 0 .. timeline.totalSteps :
              getStateAtStep(timeline, k) = EngineStateAfter(k)

\* A halted five-instruction run whose final state, with the sum stored
\* to memory, has been reconstructed.
C1_Witness ==
    /\ timeline # Null
    /\ timeline.totalSteps = 5
    /\ timeline.completed
    /\ last.op = "getStateAtStep"
    /\ last.arg = 5
    /\ last.result = EngineStateAfter(5)
    /\ last.result.mem[10] = 59
    /\ last.result.reg[3] = 59
    /\ timeline.initialState.mem[10] = 0

\* C2 (sparseness), as claimed: every entry of changedRegisters and of
\* changedMemory of deltas[i] differs from the value the cell had in the
\* state at step i.
C2_Sparse ==
    timeline # Null =>
        \A i \in 1 .. Len(timeline.deltas) :
            LET d == timeline.deltas[i]
                before == EngineStateAfter(i - 1)
            IN  /\ \A r \in DOMAIN d.changedRegisters :
                      d.changedRegisters[r] # before.reg[r]
                /\ \A a \in DOMAIN d.changedMemory :
                      d.changedMemory[a] # before.mem[a]

C4_StepInRange == 0 <= currentStep /\ currentStep <= totalSteps

\* C5 (goToStep): a step outside 0..totalSteps, or any step without a
\* timeline, changes nothing; a step inside makes currentStep that step.
C5_GoToStep ==
    last.op = "goToStep" =>
        IF InRange(last.pre.timeline, last.arg)
        THEN currentStep = last.arg
        ELSE /\ currentStep = last.pre.currentStep
             /\ timeline = last.pre.timeline
             /\ error = last.pre.error

\* goToStep(-1) has been rejected on a live timeline away from step 0.
C5_Witness ==
    /\ last.op = "goToStep"
    /\ last.arg = -1
    /\ timeline # Null
    /\ currentStep > 0
    /\ currentStep = last.pre.currentStep

\* C6 (a new run discards the navigator state), as claimed: after any
\* executeProgram call, successful or failed, currentStep is 0.
C6_RunResetsStep == last.op = "executeProgram" => currentStep = 0

\* C7 (assembly failure): when the assembler reports errors, no
\* instruction is executed, the timeline is absent afterwards and a
\* non-empty error is recorded.
C7_AssemblyFailure ==
    (last.op = "executeProgram" /\ engine.nAsmErrors > 0) =>
        /\ engine.executed = 0
        /\ timeline = Null
        /\ error # Null
        /\ error.message # <<>>

\* A source with assembly errors has been run while a timeline was live.
C7_Witness ==
    /\ last.op = "executeProgram"
    /\ engine.nAsmErrors = 2
    /\ last.pre.timeline # Null
    /\ timeline = Null
    /\ error # Null

\* C8 (no partial timeline): a published timeline holds all deltas of its
\* run (one per executed instruction, the run loop having exited on halt
\* or on the cap) with totalSteps and completed set; a run in which the
\* engine threw publishes no timeline.
C8_NoPartialTimeline ==
    /\ timeline # Null =>
          /\ ~engine.threw
          /\ Len(timeline.deltas) = engine.executed
          /\ timeline.totalSteps = Len(timeline.deltas)
          /\ engine.halted \/ engine.executed = engine.maxSteps
          /\ timeline.completed = engine.halted
    /\ (last.op = "executeProgram" /\ engine.threw) => timeline = Null

\* The engine threw after two executed instructions while an older
\* timeline was live.
C8_Witness ==
    /\ last.op = "executeProgram"
    /\ engine.threw
    /\ engine.executed = 2
    /\ last.pre.timeline # Null
    /\ timeline = Null

\* C9 (step cap): a run that assembled and did not throw always yields a
\* timeline and no error; if the engine has not halted after maxSteps
\* instructions then totalSteps = maxSteps and completed is false;
\* completed is true exactly when the engine was halted when the loop
\* exited.
C9_StepCap ==
    (last.op = "executeProgram" /\ engine.nAsmErrors = 0 /\ ~engine.threw) =>
        /\ timeline # Null
        /\ error = Null
        /\ timeline.totalSteps <= engine.maxSteps
        /\ ~EngineStateAfter(engine.executed).halted =>
              /\ timeline.totalSteps = engine.maxSteps
              /\ ~timeline.completed
        /\ timeline.completed = EngineStateAfter(engine.executed).halted

\* A program that never halts has been cut at the largest cap.
C9_Witness ==
    /\ last.op = "executeProgram"
    /\ timeline # Null
    /\ engine.maxSteps = MaxStepsCap
    /\ timeline.totalSteps = MaxStepsCap
    /\ ~timeline.completed
    /\ error = Null

\* C10 (reconstruction range): getStateAtStep(step) yields no state
\* exactly when no timeline is live or step is outside 0..totalSteps,
\* otherwise a full state; the call changes neither the timeline nor the
\* step nor the error.
C10_ReconstructionRange ==
    last.op = "getStateAtStep" =>
        /\ (last.result = Null) <=> ~InRange(timeline, last.arg)
        /\ last.result # Null =>
              /\ DOMAIN last.result.reg = RegIdx
              /\ DOMAIN last.result.mem = MemIdx
        /\ timeline = last.pre.timeline
        /\ currentStep = last.pre.currentStep
        /\ error = last.pre.error

\* A reconstruction one past the last step of a live timeline was rejected.
C10_Witness ==
    /\ last.op = "getStateAtStep"
    /\ timeline # Null
    /\ timeline.totalSteps > 0
    /\ last.arg = timeline.totalSteps + 1
    /\ last.result = Null

\* C11 (derived observables): with a live timeline, currentState is the
\* reconstruction at currentStep; previousState is the reconstruction at
\* currentStep - 1, absent at step 0; currentDelta is the delta that led
\* to currentStep, absent at step 0.
C11_DerivedObservables ==
    timeline # Null =>
        /\ currentState # Null
        /\ currentState = getStateAtStep(timeline, currentStep)
        /\ previousState = IF currentStep > 0
                           THEN getStateAtStep(timeline, currentStep - 1)
                           ELSE Null
        /\ currentDelta = IF currentStep > 0
                          THEN timeline.deltas[currentStep]
                          ELSE Null

\* The navigator stands on the halting step of a five-instruction run.
C11_Witness ==
    /\ timeline # Null
    /\ timeline.totalSteps = 5
    /\ currentStep = 5
    /\ currentState.halted
    /\ previousState # Null
    /\ ~previousState.halted
    /\ currentDelta = timeline.deltas[5]
    /\ currentDelta.halted

\* C12 (zero replay): getStateAtStep(0) equals timeline.initialState in
\* every field, also for a timeline without deltas.
C12_ZeroReplay ==
    timeline # Null => getStateAtStep(timeline, 0) = timeline.initialState

\* Step 0 of a timeline without deltas, whose memory holds a loaded
\* program, has been reconstructed.
C12_Witness ==
    /\ timeline # Null
    /\ timeline.totalSteps = 0
    /\ timeline.deltas = <<>>
    /\ \E a \in MemIdx : timeline.initialState.mem[a] # 0
    /\ last.op = "getStateAtStep"
    /\ last.arg = 0
    /\ last.result = timeline.initialState

NavigationOps == {"goToStep", "nextStep", "prevStep", "reset", "goToEnd"}

\* C14 (timeline immutable under navigation): goToStep, nextStep,
\* prevStep, reset, goToEnd and state reconstruction leave the timeline
\* (initialState, deltas, totalSteps, completed) and the error as they
\* were and start no run; only currentStep and what derives from it change.
C14_TimelineImmutable ==
    last.op \in NavigationOps \cup {"getStateAtStep"} =>
        /\ timeline = last.pre.timeline
        /\ error = last.pre.error
        /\ ~isExecuting

\* reset has taken the navigator from the end of a live timeline to 0.
C14_Witness ==
    /\ last.op = "reset"
    /\ timeline # Null
    /\ last.pre.currentStep = timeline.totalSteps
    /\ timeline.totalSteps > 0
    /\ currentStep = 0
    /\ timeline = last.pre.timeline

\* C15 (delta log shape): a timeline holds exactly one delta per executed
\* instruction, in execution order: deltas[i] turns the engine's state
\* after i instructions into its state after i + 1, and totalSteps =
\* deltas.length = number of executed instructions.
C15_DeltaLogShape ==
    timeline # Null =>
        /\ timeline.totalSteps = Len(timeline.deltas)
        /\ Len(timeline.deltas) = engine.executed
        /\ \A i \in 1 .. Len(timeline.deltas) :
              /\ timeline.deltas[i].instrCount = i
              /\ applyDelta(EngineStateAfter(i - 1), timeline.deltas[i])
                    = EngineStateAfter(i)

\* A three-instruction log cut by the step cap.
C15_Witness ==
    /\ timeline # Null
    /\ engine.executed = 3
    /\ engine.maxSteps = 3
    /\ Len(timeline.deltas) = 3
    /\ ~timeline.completed
    /\ timeline.deltas[1] # timeline.deltas[3]

\* C16 (reset and goToEnd): with a timeline loaded reset sets currentStep
\* to 0 and goToEnd sets it to totalSteps, from any step; without a
\* timeline goToEnd changes nothing.
C16_ResetAndEnd ==
    /\ (last.op = "reset" /\ last.pre.timeline # Null) => currentStep = 0
    /\ (last.op = "goToEnd" /\ last.pre.timeline # Null) =>
          /\ currentStep = last.pre.timeline.totalSteps
          /\ timeline = last.pre.timeline
    /\ (last.op = "goToEnd" /\ last.pre.timeline = Null) =>
          /\ currentStep = last.pre.currentStep
          /\ timeline = Null
          /\ error = last.pre.error

\* goToEnd has moved the navigator from the middle of a timeline to its end.
C16_Witness ==
    /\ last.op = "goToEnd"
    /\ timeline # Null
    /\ last.pre.currentStep > 0
    /\ last.pre.currentStep < timeline.totalSteps
    /\ currentStep = timeline.totalSteps

\* C17 (step capabilities), as claimed: canStepForward is true exactly
\* when a timeline is live and currentStep < totalSteps, canStepBackward
\* exactly when a timeline is live and currentStep > 0; nextStep changes
\* currentStep iff canStepForward held, prevStep iff canStepBackward held.
C17_Capabilities ==
    /\ canStepForward <=> (timeline # Null /\ currentStep < totalSteps)
    /\ canStepBackward <=> (timeline # Null /\ currentStep > 0)
    /\ last.op = "nextStep" =>
          ((currentStep # last.pre.currentStep)
              <=> canStepForwardOf(last.pre.timeline, last.pre.currentStep))
    /\ last.op = "prevStep" =>
          ((currentStep # last.pre.currentStep)
              <=> canStepBackwardOf(last.pre.currentStep))

\* The run of the documented program: two loads, add, store, trap.
AddRun ==
    /\ timeline # Null
    /\ timeline.sourceCode = "add"
    /\ timeline.completed

SumAddress == 10

\* C18 (concrete scenario), as claimed: the run has totalSteps = 4 and
\* deltas[2].changedRegisters is exactly {3: 59}.
C18_ScenarioAsClaimed ==
    AddRun =>
        /\ timeline.totalSteps = 4
        /\ timeline.deltas[1].changedRegisters = (1 :> 42)
        /\ timeline.deltas[2].changedRegisters = (2 :> 17)
        /\ timeline.deltas[3].changedRegisters = (3 :> 59)
        /\ timeline.deltas[4].changedMemory = (SumAddress :> 59)
        /\ \A i \in 1 .. (timeline.totalSteps - 1) : ~timeline.deltas[i].halted
        /\ timeline.deltas[timeline.totalSteps].halted

\* C18 (concrete scenario), amended: the run has totalSteps = 5 (the trap
\* is the fifth executed instruction); the first two deltas change R1 to
\* 42 and R2 to 17; the third changes R3 to 59 and, with it, the condition
\* code register R15; the fourth changes the sum word to 59; halted is
\* false in the first four deltas and true in the trap's delta.
C18_Scenario ==
    AddRun =>
        /\ timeline.totalSteps = 5
        /\ timeline.deltas[1].changedRegisters = (1 :> 42)
        /\ timeline.deltas[2].changedRegisters = (2 :> 17)
        /\ DOMAIN timeline.deltas[3].changedRegisters = {3, 15}
        /\ timeline.deltas[3].changedRegisters[3] = 59
        /\ timeline.deltas[4].changedMemory = (SumAddress :> 59)
        /\ \A i \in 1 .. 4 : ~timeline.deltas[i].halted
        /\ timeline.deltas[5].halted

\* The documented program has run to its trap and the navigator is at
\* the end.
C18_Witness ==
    /\ AddRun
    /\ engine.maxSteps = MaxStepsCap
    /\ currentStep = timeline.totalSteps
    /\ currentState.halted
    /\ currentState.mem[SumAddress] = 59

\* The engine of the latest run, re-executed from the loaded program.
EngineStart ==
    [createEmulatorState EXCEPT !.mem = engine.loaded,
                                !.pc = Addr(engine.startAddress),
                                !.curInstrAddr = engine.startAddress,
                                !.nextInstrAddr = engine.startAddress]

RECURSIVE EngineAfter(_)
EngineAfter(k) ==
    IF k = 0 THEN EngineStart ELSE executeInstruction(EngineAfter(k - 1))

\* Registers the engine reported as fetched, as stored, by instruction k.
EngineFetched(k) == Range(EngineAfter(k).regFetched) \cap RegIdx

EngineStored(k) == Range(EngineAfter(k).regStored) \cap RegIdx

\* C19 (register annotation), as claimed: at every step with a delta, the
\* registers the visualiser marks as inputs are those the engine reported
\* as fetched by the instruction, and the ones marked as outputs those it
\* reported as stored.
C19_Annotation ==
    (timeline # Null /\ currentStep > 0) =>
        /\ {i \in RegIdx : isInput(currentDelta, i)} = EngineFetched(currentStep)
        /\ {i \in RegIdx : isOutput(currentDelta, i)} = EngineStored(currentStep)

\* C20 (replay step rule): the state at step k + 1 is the state at step k
\* with pc, ir, flags, control registers, halted and instrCount taken
\* from deltas[k], every register and memory word that is a key of the
\* delta set to the recorded value, and every other register and memory
\* word kept.
C20_ReplayStep ==
    timeline # Null =>
        \A k \in 0 .. (timeline.totalSteps - 1) :
            LET s == getStateAtStep(timeline, k)
                t == getStateAtStep(timeline, k + 1)
                d == timeline.deltas[k + 1]
            IN  /\ DOMAIN t = DOMAIN s
                /\ t.pc = d.pc /\ t.ir = d.ir
                /\ t.ccC = d.ccC /\ t.ccV = d.ccV
                /\ t.ccG = d.ccG /\ t.ccE = d.ccE
                /\ t.statusreg = d.controlRegs.statusreg
                /\ t.mask = d.controlRegs.mask
                /\ t.req = d.controlRegs.req
                /\ t.vect = d.controlRegs.vect
                /\ t.halted = d.halted
                /\ t.instrCount = d.instrCount
                /\ \A r \in RegIdx :
                      t.reg[r] = IF r \in DOMAIN d.changedRegisters
                                 THEN d.changedRegisters[r]
                                 ELSE s.reg[r]
                /\ \A a \in MemIdx :
                      t.mem[a] = IF a \in DOMAIN d.changedMemory
                                 THEN d.changedMemory[a]
                                 ELSE s.mem[a]

\* Step 4 of the documented run has been reconstructed: R1 and R2 keep
\* the values loaded by deltas that do not mention them any more.
C20_Witness ==
    /\ AddRun
    /\ last.op = "getStateAtStep"
    /\ last.arg = 4
    /\ last.result.reg[1] = 42
    /\ last.result.reg[2] = 17
    /\ 1 \notin DOMAIN timeline.deltas[4].changedRegisters
    /\ last.result.mem[SumAddress] = 59

Refs(state) == {state.reg, state.mem}

\* C22 (independent ownership): the arrays of a state handed out by
\* getStateAtStep are neither those of timeline.initialState nor those of
\* any other state handed out, so a write into a handed-out state changes
\* neither timeline.initialState nor the result of a later call.
C22_Owned ==
    (heap # Null /\ timeline # Null /\ heap.timeline = timeline) =>
        /\ \A j \in DOMAIN heap.held :
              /\ Cardinality(Refs(heap.held[j])) = 2
              /\ Refs(heap.held[j]) \cap Refs(heap.initial) = {}
              /\ \A k \in DOMAIN heap.held :
                    k # j => Refs(heap.held[j]) \cap Refs(heap.held[k]) = {}
        /\ heap.cells[heap.initial.reg] = timeline.initialState.reg
        /\ heap.cells[heap.initial.mem] = timeline.initialState.mem
        /\ last.op = "getStateAtStep" =>
              last.result = getStateAtStep(timeline, last.arg)

\* The caller wrote into the registers and the memory of the state it got
\* for step 0 and then asked for step 0 again.
C22_Witness ==
    /\ heap # Null
    /\ timeline # Null
    /\ heap.timeline = timeline
    /\ Len(heap.held) = 2
    /\ heap.cells[heap.held[1].reg][WrittenIndex] = WrittenWord
    /\ heap.cells[heap.held[1].mem][WrittenIndex] = WrittenWord
    /\ heap.held[1].instrCount = 0
    /\ last.op = "getStateAtStep"
    /\ last.arg = 0
    /\ last.result.reg[WrittenIndex] = 0
    /\ last.result.mem[WrittenIndex] # WrittenWord

\* C23 (run termination): every call of executeProgram returns, having
\* executed at most maxSteps instructions, so the timeline has at most
\* maxSteps deltas and none when maxSteps is 0; isExecuting is false
\* afterwards whether the run succeeded or failed.
C23_RunTerminates ==
    last.op = "executeProgram" =>
        /\ ~isExecuting
        /\ engine.executed <= last.arg
        /\ last.arg = 0 => engine.executed = 0
        /\ timeline # Null =>
              /\ Len(timeline.deltas) <= last.arg
              /\ last.arg = 0 => timeline.deltas = <<>>

\* A run with the largest cap failed at its third instruction.
C23_Witness ==
    /\ last.op = "executeProgram"
    /\ last.arg = MaxStepsCap
    /\ engine.threw
    /\ engine.executed = 2
    /\ ~engine.halted
    /\ error # Null
    /\ timeline = Null
    /\ ~isExecuting

\* C24 (halt position): in every timeline, whose initial state is not
\* halted, halted is false in every delta but possibly the last, and
\* completed is true exactly when there is a last delta and it has
\* halted true.
C24_HaltPosition ==
    timeline # Null =>
        /\ ~timeline.initialState.halted
        /\ \A i \in 1 .. (timeline.totalSteps - 1) : ~timeline.deltas[i].halted
        /\ timeline.completed <=>
              /\ timeline.totalSteps > 0
              /\ timeline.deltas[timeline.totalSteps].halted

\* A program that halts at its first instruction ran under a cap of
\* three: its only delta is the halting one.
C24_Witness ==
    /\ timeline # Null
    /\ timeline.sourceCode = "org"
    /\ engine.maxSteps = 3
    /\ timeline.totalSteps = 1
    /\ timeline.deltas[1].halted
    /\ timeline.completed

\* The latest call replaced or removed the timeline object.
TimelineReplaced ==
    \/ last.op = "executeProgram" /\ timeline # Null
    \/ timeline = Null /\ last.pre.timeline # Null

C26_InitialCapture ==
    timeline # Null =>
        LET s == timeline.initialState
        IN  /\ s.pc = timeline.programInfo.startAddress
            /\ s.mem = engine.loaded
            /\ s.instrCount = 0
            /\ s.ir = 0
            /\ \A r \in RegIdx : s.reg[r] = 0
            /\ ~s.halted
            /\ timeline.totalSteps > 0 => s # EngineStateAfter(1)

\* A program placed at address 2 has run and halted: the snapshot has pc
\* at 2 and the trap word there, and is not halted although the run is.
C26_Witness ==
    /\ timeline # Null
    /\ timeline.sourceCode = "org"
    /\ timeline.completed
    /\ timeline.programInfo.startAddress = 2
    /\ timeline.initialState.pc = 2
    /\ timeline.initialState.mem[2] = RRR(12, 0, 0, 0)
    /\ ~timeline.initialState.halted
    /\ currentStep = 0
    /\ currentState = timeline.initialState

\* C27 (no race on the step index), as claimed: also when nextStep or
\* prevStep is called two or more times on the same rendered hook before
\* it re-renders, currentStep stays within 0..totalSteps.
C27_NoRace ==
    /\ currentStep >= 0
    /\ currentStep <= totalSteps

\* C28 (error and timeline exclude each other): an error is set only
\* while no timeline is live; a successful run leaves no error, whatever
\* error was set before it; a failed run leaves an error and no timeline;
\* clearTimeline leaves no error, no timeline and currentStep 0.
C28_ErrorExcludesTimeline ==
    /\ error # Null => timeline = Null
    /\ last.op = "executeProgram" =>
          IF engine.nAsmErrors > 0 \/ engine.threw
          THEN error # Null /\ timeline = Null
          ELSE error = Null /\ timeline # Null
    /\ last.op = "clearTimeline" =>
          error = Null /\ timeline = Null /\ currentStep = 0

\* A run succeeded right after a failed one: the earlier error is gone.
C28_Witness ==
    /\ last.op = "executeProgram"
    /\ last.pre.error # Null
    /\ last.pre.timeline = Null
    /\ error = Null
    /\ timeline # Null
    /\ timeline.totalSteps > 0

\* The four condition flags of a state agree with the bits of its R15.
FlagsMatchR15(state) ==
    /\ state.ccC = extractBoolLE(state.reg[15], bit_ccC)
    /\ state.ccV = extractBoolLE(state.reg[15], bit_ccV)
    /\ state.ccG = extractBoolLE(state.reg[15], bit_ccG)
    /\ state.ccE = extractBoolLE(state.reg[15], bit_ccE)

\* C29 (flag consistency): in the state reconstructed for any step of
\* any timeline, the flags ccC, ccV, ccG and ccE equal the corresponding
\* bits of register R15 of that state.
C29_FlagConsistency ==
    timeline # Null =>
        \A k \in 0 .. timeline.totalSteps :
            FlagsMatchR15(getStateAtStep(timeline, k))

\* The state after the add of the documented run has been reconstructed:
\* R15 holds the condition code of a positive sum and ccG is set, while
\* no flag was set one step before.
C29_Witness ==
    /\ AddRun
    /\ last.op = "getStateAtStep"
    /\ last.arg = 3
    /\ last.result.reg[15] = Pow2(bit_ccG)
    /\ last.result.ccG
    /\ ~last.result.ccE
    /\ ~getStateAtStep(timeline, 2).ccG
    /\ getStateAtStep(timeline, 2).reg[15] = 0

\* The latest call completed a round trip.
TripDone ==
    /\ origin # Null
    /\ origin.leg = 2
    /\ last.op = IF origin.kind = "nextPrev" THEN "prevStep" ELSE "nextStep"

\* C30 (navigation round trip), as claimed: from any reachable state with
\* currentStep < totalSteps, nextStep followed by prevStep restores
\* currentStep, currentState, previousState and currentDelta, and from any
\* reachable state with currentStep > 0 so does prevStep followed by
\* nextStep.
C30_RoundTrip ==
    TripDone =>
        /\ currentStep = origin.currentStep
        /\ currentState = origin.currentState
        /\ previousState = origin.previousState
        /\ currentDelta = origin.currentDelta

====
